---- MODULE Spec2Model ----
(***************************************************************************)
(* Reservation / spot lifecycle of the vehicle parking backend.            *)
(*                                                                         *)
(* The entity store (tables parking_lots, parking_spots, reservations,     *)
(* user_activities), the redis cache with its three cached views and the   *)
(* request handlers of routes/user.py and routes/admin.py.  Every handler  *)
(* runs in its own SQLAlchemy session: what it reads (a query) and what it *)
(* writes (the flush at db.session.commit()) are separate steps, and a     *)
(* step of another request may fall between them; no handler takes a row   *)
(* lock.                                                                   *)
(*                                                                         *)
(* Time is counted in whole minutes.  Durations are kept in hundredths of  *)
(* an hour and money in hundredths of the currency unit, which is what     *)
(* round(x, 2) leaves.                                                     *)
(***************************************************************************)
EXTENDS Integers, Sequences, FiniteSets, TLC

\* ------------------------------------------------------------------ bounds
MaxReservations == 2
MaxSpotId == 3
MaxTime == 1
MaxElapsed == 95
MaxCacheTime == 6

\* Row ids and request slots.
Users == {1, 2}
Procs == {1, 2}
LotIds == {1, 2}
SpotIds == 1..MaxSpotId
ReservationIds == 1..MaxReservations

\* Values a request may carry.
Prices == {10, 25}
Names == {"n1", "n2"}
Addresses == {"a1", "a2"}
PinCodes == {"p1"}
SpotCounts == 0..2

CacheKeys == {"user:available_lots", "admin:parking_lots", "admin:dashboard_stats"}

\* A nullable column: NULL, or a value.
None == <<>>
Some(v) == <<v>>
Val(o) == o[1]

VARIABLES
    lots,          \* parking_lots: id -> row
    spots,         \* parking_spots: id -> row
    reservations,  \* reservations: row id = position
    activities,    \* user_activities, in insertion order
    users,         \* users: username -> role
    cache,         \* redis: key -> None or Some(value)
    expires,       \* redis: key -> None or Some(the minute its ttl runs out)
    redis,         \* the cache backend: "up", "down" (calls raise), "absent"
    now,           \* datetime.utcnow(), in minutes
    pc,            \* where each request slot stands in its handler
    sess,          \* what the handler's session holds between its steps
    resp,          \* the last response each request slot returned
    body           \* the view in the last response of each slot, if it has one

vars == <<lots, spots, reservations, activities, users, cache, expires, redis,
          now, pc, sess, resp, body>>
store == <<lots, spots, reservations, activities>>

NoSession == [op |-> "none"]

\* ----------------------------------------------------------------- helpers
MaxOf(S) == IF S = {} THEN 0 ELSE CHOOSE x \in S : \A y \in S : y <= x

RECURSIVE SetToSeq(_)
SetToSeq(S) ==
    IF S = {} THEN <<>>
    ELSE LET x == CHOOSE y \in S : \A z \in S : y <= z
         IN <<x>> \o SetToSeq(S \ {x})

Remove(f, D) == [x \in (DOMAIN f) \ D |-> f[x]]

IsOpen(r) == reservations[r].leaving_timestamp = None

OpenReservations == {r \in DOMAIN reservations : IsOpen(r)}

OpenOnSpot(s) == {r \in OpenReservations : reservations[r].spot_id = s}

OpenOfUser(u) == {r \in OpenReservations : reservations[r].user_id = u}

ReservationsOfSpot(s) == {r \in DOMAIN reservations : reservations[r].spot_id = s}

LotSpots(l) == {s \in DOMAIN spots : spots[s].lot_id = l}

\* ------------------------------------------------------------ calculate_cost
\* round(n / d) for d > 0.  With whole minutes and whole prices n / d is a
\* multiple of 1/3, never half way between two integers.
RoundDiv(n, d) == (2 * n + d) \div (2 * d)

\* duration = total_seconds() / 3600; duration_hours = round(duration, 2)
DurationHours(entry, exit) == RoundDiv((exit - entry) * 100, 60)

\* Mutant: the cost computed from the rounded duration_hours.
ParkingCost_FromRounded(entry, exit, price) == DurationHours(entry, exit) * price

\* parking_cost = round(duration * price_per_hour, 2), duration not rounded
ParkingCost(entry, exit, price) == RoundDiv((exit - entry) * price * 100, 60)

\* Mutant: the duration is assigned, the cost is not.
CalculateCost_DurationOnly(entry, exit, price) ==
    [duration_hours |-> Some(DurationHours(entry, exit)), parking_cost |-> None]

\* models.py 143-150: with both timestamps set, calculate_cost assigns
\* duration_hours and parking_cost.
CalculateCost(entry, exit, price) ==
    [duration_hours |-> Some(DurationHours(entry, exit)),
     parking_cost |-> Some(ParkingCost(entry, exit, price))]

\* ------------------------------------------------------------------- queries
\* Mutant: the active-reservation query finds nothing.
ActiveReservation_Skipped(u) == {}

\* Reservation.query.filter_by(user_id=user.id, leaving_timestamp=None)
ActiveReservation(u) == OpenOfUser(u)

\* Mutant: the spot query without its status filter.
AvailableSpots_AnyStatus(l) == LotSpots(l)

\* ParkingSpot.query.filter_by(lot_id=lot_id, status='A'); the query has no
\* ORDER BY, so the row .first() or .limit(k) returns is any matching row.
AvailableSpots(l) == {s \in LotSpots(l) : spots[s].status = "A"}

\* Mutant: the occupied-spot query finds nothing.
OccupiedSpots_None(l) == {}

\* lot.spots.filter_by(status='O')
OccupiedSpots(l) == {s \in LotSpots(l) : spots[s].status = "O"}

\* ----------------------------------------------------------------- requests
\* The handler returns: the slot is free again and keeps the response, which
\* carries no view.
Finish(p, kind) ==
    /\ pc' = [pc EXCEPT ![p] = "idle"]
    /\ sess' = [sess EXCEPT ![p] = NoSession]
    /\ resp' = [resp EXCEPT ![p] = kind]
    /\ body' = [body EXCEPT ![p] = None]

\* The handler goes on to its next step; it has not answered yet.
Goto(p, label, session) ==
    /\ pc' = [pc EXCEPT ![p] = label]
    /\ sess' = [sess EXCEPT ![p] = session]
    /\ resp' = [resp EXCEPT ![p] = "none"]
    /\ body' = [body EXCEPT ![p] = None]

\* Mutant: the deletes leave the keys in place.
CacheDelete_Skipped(keys) == cache

\* if current_app.redis_client: try: redis_client.delete(key) for each key;
\* except: pass.  Nothing is deleted when the client is None or the call
\* raises.
CacheDelete(keys) ==
    IF redis = "up"
    THEN [k \in CacheKeys |-> IF k \in keys THEN None ELSE cache[k]]
    ELSE cache

\* redis_client.get(key) under the same guard: a miss when the client is None
\* or the call raises.  A stored value is a non-empty JSON text, so "if
\* cached" is true for every entry, the empty list "[]" included.
CacheGet(k) == IF redis = "up" THEN cache[k] ELSE None

\* redis_client.setex(key, ttl, json.dumps(value)) under the same guard.  The
\* values are numbers, strings, lists and dicts, which json.loads reads back
\* as written.
CacheSet(k, v) == IF redis = "up" THEN [cache EXCEPT ![k] = Some(v)] ELSE cache

\* The ttl handed to setex, in minutes: 120 seconds for the available lots
\* and the dashboard stats, 300 seconds for the admin's lot list.
Ttl(k) == IF k = "admin:parking_lots" THEN 5 ELSE 2

\* The expiry redis keeps with the entry setex wrote.
ExpirySet(k) ==
    IF redis = "up" THEN [expires EXCEPT ![k] = Some(now + Ttl(k))] ELSE expires

\* The expiry goes with a deleted key.
ExpiryDelete(keys) ==
    [k \in CacheKeys |-> IF CacheDelete(keys)[k] = None THEN None ELSE expires[k]]

\* Mutant: an exception of the cache call reaches the handler's outer except.
CacheRaised_Surfaced(kind) == "StoreFailure"

\* The bare "except: pass" around the cache calls: the handler answers what
\* it was about to answer.
CacheRaised(kind) == kind

\* The response of a handler whose commit succeeded, after its cache deletes.
AfterInvalidate(kind) == IF redis = "down" THEN CacheRaised(kind) ELSE kind

\* Bookings that passed the active-reservation check and have not returned.
BookingsInFlight == {q \in Procs : pc[q] \in {"book_select", "book_commit"}}

\* ------------------------------------------------------------------ book_spot
\* The status book_spot writes to the selected spot.
BookedStatus == "O"

\* user.py 71-78: the active-reservation check.
BookCheck(p, u, l) ==
    /\ pc[p] = "idle"
    /\ Len(reservations) + Cardinality(BookingsInFlight) < MaxReservations
    /\ UNCHANGED <<lots, spots, reservations, activities, users, cache, expires, redis, now>>
    /\ IF ActiveReservation(u) # {}
       THEN Finish(p, "AlreadyBooked")
       ELSE Goto(p, "book_select", [op |-> "book", user_id |-> u, lot_id |-> l])

\* user.py 80-94: the spot query and the Reservation object.
BookSelect(p) ==
    /\ pc[p] = "book_select"
    /\ UNCHANGED <<lots, spots, reservations, activities, users, cache, expires, redis, now>>
    /\ IF AvailableSpots(sess[p].lot_id) = {}
       THEN Finish(p, "NoAvailability")
       ELSE \E s \in AvailableSpots(sess[p].lot_id) :
                Goto(p, "book_commit",
                     [op |-> "book", user_id |-> sess[p].user_id,
                      spot_id |-> s, parking_timestamp |-> now])

\* user.py 96-126: the flush (UPDATE parking_spots ... WHERE id = spot.id,
\* INSERT reservation, INSERT activity), the commit and the cache deletes.
\* An UPDATE that matches no row raises StaleDataError: rollback, 500.
BookCommit(p) ==
    /\ pc[p] = "book_commit"
    /\ UNCHANGED <<lots, users, redis, now>>
    /\ LET s == sess[p].spot_id IN
       IF s \notin DOMAIN spots
       THEN /\ UNCHANGED <<spots, reservations, activities, cache, expires>>
            /\ Finish(p, "StoreFailure")
       ELSE /\ spots' = [spots EXCEPT ![s].status = BookedStatus]
            /\ reservations' = Append(reservations,
                   [spot_id |-> s, user_id |-> sess[p].user_id,
                    parking_timestamp |-> sess[p].parking_timestamp,
                    leaving_timestamp |-> None, parking_cost |-> None,
                    duration_hours |-> None])
            /\ activities' = Append(activities,
                   [user_id |-> sess[p].user_id, activity_type |-> "booking"])
            /\ cache' = CacheDelete(CacheKeys)
            /\ expires' = ExpiryDelete(CacheKeys)
            /\ Finish(p, AfterInvalidate("Booked"))

\* --------------------------------------------------------------- release_spot
\* Mutant: release leaves the spot occupied.
ReleasedStatus_Occupied == "O"

\* The status release_spot writes to the reservation's spot.
ReleasedStatus == "A"

\* Mutant: the released check never fires.
AlreadyReleased_Never(r) == FALSE

\* user.py 145: if reservation.leaving_timestamp
AlreadyReleased(r) == reservations[r].leaving_timestamp # None

\* Mutant: the open check placed before the owner check.
ReleaseError_OpenFirst(r, u) ==
    IF r \notin DOMAIN reservations THEN "NotFound"
    ELSE IF AlreadyReleased(r) THEN "AlreadyReleased"
    ELSE IF reservations[r].user_id # u THEN "Unauthorized"
    ELSE "none"

\* user.py 137-146: the precondition checks in their order (404, 403, 400),
\* "none" when all pass.
ReleaseError(r, u) ==
    IF r \notin DOMAIN reservations THEN "NotFound"
    ELSE IF reservations[r].user_id # u THEN "Unauthorized"
    ELSE IF AlreadyReleased(r) THEN "AlreadyReleased"
    ELSE "none"

\* Mutant: a list price instead of the lot's own.
LotPrice_List(s) == 10

\* models.py 148: self.parking_spot.parking_lot.price_per_hour, as stored
\* when calculate_cost runs
LotPrice(s) == lots[spots[s].lot_id].price_per_hour

\* user.py 137-154: the precondition checks, then the new column values
\* computed in the session (calculate_cost reads spot and lot; a missing
\* spot or lot is an AttributeError on None, answered 500).
ReleaseRead(p, r, u) ==
    /\ pc[p] = "idle"
    /\ UNCHANGED <<lots, spots, reservations, activities, users, cache, expires, redis, now>>
    /\ IF ReleaseError(r, u) # "none" THEN Finish(p, ReleaseError(r, u))
       ELSE LET res == reservations[r]
                s == res.spot_id
            IN IF s \notin DOMAIN spots \/ spots[s].lot_id \notin DOMAIN lots
               THEN Finish(p, "InternalError")
               ELSE Goto(p, "release_commit",
                      [op |-> "release", reservation |-> r, user_id |-> u,
                       spot_id |-> s,
                       spot_dirty |-> spots[s].status # ReleasedStatus,
                       leaving_timestamp |-> now,
                       duration_hours |->
                           CalculateCost(res.parking_timestamp, now,
                                         LotPrice(s)).duration_hours,
                       parking_cost |->
                           CalculateCost(res.parking_timestamp, now,
                                         LotPrice(s)).parking_cost])

\* user.py 163-182: the flush (UPDATE reservations, UPDATE parking_spots when
\* the loaded status differs, INSERT activity), the commit, the cache deletes.
ReleaseCommit(p) ==
    /\ pc[p] = "release_commit"
    /\ UNCHANGED <<lots, users, redis, now>>
    /\ LET s == sess[p].spot_id
           r == sess[p].reservation
       IN IF sess[p].spot_dirty /\ s \notin DOMAIN spots
          THEN /\ UNCHANGED <<spots, reservations, activities, cache, expires>>
               /\ Finish(p, "StoreFailure")
          ELSE /\ reservations' = [reservations EXCEPT
                       ![r].leaving_timestamp = Some(sess[p].leaving_timestamp),
                       ![r].duration_hours = sess[p].duration_hours,
                       ![r].parking_cost = sess[p].parking_cost]
               /\ spots' = IF sess[p].spot_dirty
                           THEN [spots EXCEPT ![s].status = ReleasedStatus]
                           ELSE spots
               /\ activities' = Append(activities,
                      [user_id |-> sess[p].user_id, activity_type |-> "release"])
               /\ cache' = CacheDelete(CacheKeys)
               /\ expires' = ExpiryDelete(CacheKeys)
               /\ Finish(p, AfterInvalidate("Released"))

\* ------------------------------------------------------------- cached views
\* models.py 59-74: ParkingLot.to_dict (created_at never changes and is left
\* out).
LotDict(l) ==
    [id |-> l,
     prime_location_name |-> lots[l].prime_location_name,
     price_per_hour |-> lots[l].price_per_hour,
     address |-> lots[l].address,
     pin_code |-> lots[l].pin_code,
     number_of_spots |-> lots[l].number_of_spots,
     available_spots |-> Cardinality(AvailableSpots(l)),
     occupied_spots |-> Cardinality(OccupiedSpots(l))]

\* user.py 37-44: the lots with an Available spot.  The list is kept as a
\* function of the lot id; ParkingLot.query.all() fixes no order.
AvailableLotsView ==
    [l \in {x \in DOMAIN lots : AvailableSpots(x) # {}} |-> LotDict(l)]

\* admin.py 37-38: every lot.
ParkingLotsView == [l \in DOMAIN lots |-> LotDict(l)]

\* func.sum(Reservation.parking_cost): NULL costs are skipped.
RECURSIVE SumCost(_)
SumCost(n) ==
    IF n = 0 THEN 0
    ELSE SumCost(n - 1) + (IF reservations[n].parking_cost = None THEN 0
                           ELSE Val(reservations[n].parking_cost))

\* admin.py 271-299: the dashboard statistics.  The rate is kept in
\* hundredths of a percent; every reservation of a behaviour is booked on
\* the day of the read.
DashboardStats ==
    LET total == Cardinality(DOMAIN spots)
        occupied == Cardinality({s \in DOMAIN spots : spots[s].status = "O"})
    IN [total_parking_lots |-> Cardinality(DOMAIN lots),
        total_parking_spots |-> total,
        available_spots |->
            Cardinality({s \in DOMAIN spots : spots[s].status = "A"}),
        occupied_spots |-> occupied,
        occupancy_rate |->
            IF total > 0 THEN RoundDiv(occupied * 10000, total) ELSE 0,
        total_users |-> Cardinality(Users),
        active_reservations |-> Cardinality(OpenReservations),
        completed_reservations |-> Len(reservations) - Cardinality(OpenReservations),
        total_revenue |-> SumCost(Len(reservations)),
        today_bookings |-> Len(reservations)]

\* What each cached handler computes from the store.
Compute(k) ==
    CASE k = "user:available_lots" -> AvailableLotsView
      [] k = "admin:parking_lots" -> ParkingLotsView
      [] k = "admin:dashboard_stats" -> DashboardStats

\* The handler answers 200 with a view; the body is kept with the name of
\* the view it is.
FinishView(p, k, v) ==
    /\ pc' = [pc EXCEPT ![p] = "idle"]
    /\ sess' = [sess EXCEPT ![p] = NoSession]
    /\ resp' = [resp EXCEPT ![p] = "Ok"]
    /\ body' = [body EXCEPT ![p] = Some([key |-> k, value |-> v])]

\* The cache lookup of a cached handler and, on a miss, its queries
\* (user.py 27-44, admin.py 27-38, admin.py 260-299).
ViewRead(p, k) ==
    /\ pc[p] = "idle"
    /\ UNCHANGED <<lots, spots, reservations, activities, users, cache, expires, redis, now>>
    /\ IF CacheGet(k) # None
       THEN FinishView(p, k, Val(CacheGet(k)))
       ELSE Goto(p, "view_store", [op |-> "view", key |-> k, value |-> Compute(k)])

\* The setex of what was computed and the response (user.py 46-53,
\* admin.py 40-47, admin.py 301-308).
ViewStore(p) ==
    /\ pc[p] = "view_store"
    /\ UNCHANGED <<lots, spots, reservations, activities, users, redis, now>>
    /\ cache' = CacheSet(sess[p].key, sess[p].value)
    /\ expires' = ExpirySet(sess[p].key)
    /\ FinishView(p, sess[p].key, sess[p].value)

\* GET /api/user/parking-lots/available
GetAvailableLots(p) == ViewRead(p, "user:available_lots")

\* GET /api/admin/parking-lots
GetParkingLots(p) == ViewRead(p, "admin:parking_lots")

\* GET /api/admin/dashboard/stats
GetDashboardStats(p) == ViewRead(p, "admin:dashboard_stats")

\* Redis drops an entry, its ttl having run out at a time the clock of the
\* model does not show.
CacheExpire(k) ==
    /\ cache[k] # None
    /\ cache' = [cache EXCEPT ![k] = None]
    /\ expires' = [expires EXCEPT ![k] = None]
    /\ UNCHANGED <<lots, spots, reservations, activities, users, redis, now, pc, sess,
                   resp, body>>

\* The cache backend stops answering, and answers again.
RedisDown ==
    /\ redis = "up"
    /\ redis' = "down"
    /\ UNCHANGED <<lots, spots, reservations, activities, users, cache, expires, now, pc, sess,
                   resp, body>>

RedisUp ==
    /\ redis = "down"
    /\ redis' = "up"
    /\ UNCHANGED <<lots, spots, reservations, activities, users, cache, expires, now, pc, sess,
                   resp, body>>

\* ------------------------------------------------------------ admin requests
LotColumns == {"prime_location_name", "price_per_hour", "address", "pin_code",
               "number_of_spots"}

\* Spots an update has decided to add and not yet flushed.
PendingAdds ==
    LET f[S \in SUBSET Procs] ==
            IF S = {} THEN 0
            ELSE LET q == CHOOSE x \in S : TRUE
                 IN (IF pc[q] \in {"update_flush", "update_commit"}
                     THEN Cardinality(sess[q].add) ELSE 0) + f[S \ {q}]
    IN f[Procs]

\* Whether the spot table has room for k more rows (the bound on spot ids).
RoomFor(k) == MaxOf(DOMAIN spots) + PendingAdds + k <= MaxSpotId

\* INSERT INTO parking_spots, one row per label, ids following the largest
\* rowid; spot_number is f"SPOT-{lot.id}-{i:03d}", kept as the pair (lot.id, i).
NewSpots(l, labels) ==
    LET base == MaxOf(DOMAIN spots)
        seq == SetToSeq(labels)
    IN [i \in (base + 1)..(base + Len(seq)) |->
           [lot_id |-> l, spot_number |-> <<l, seq[i - base]>>, status |-> "A"]]

\* admin.py 66-104: create_parking_lot, one transaction.
CreateLot(p, attrs) ==
    LET id == MaxOf(DOMAIN lots) + 1
        labels == 1..attrs.number_of_spots
    IN /\ pc[p] = "idle"
       /\ id \in LotIds
       /\ RoomFor(Cardinality(labels))
       /\ lots' = lots @@ (id :> attrs)
       /\ spots' = spots @@ NewSpots(id, labels)
       /\ cache' = CacheDelete({"admin:parking_lots", "user:available_lots"})
       /\ expires' = ExpiryDelete({"admin:parking_lots", "user:available_lots"})
       /\ UNCHANGED <<reservations, activities, users, redis, now>>
       /\ Finish(p, AfterInvalidate("Created"))

\* The lot row as the session holds it after admin.py 121-129, 145, 153.
Assigned(row, data) ==
    [c \in LotColumns |-> IF data[c] # None THEN Val(data[c]) ELSE row[c]]

\* Mutant: the assigned columns reach the store although nothing committed.
AfterEarlyReturn_Flushed(row, pending) == pending

\* What the store holds of a lot row after a handler returned without
\* commit: the session is removed at request teardown, its changes with it.
AfterEarlyReturn(row, pending) == row

\* admin.py 115-153: load the lot, assign the columns, plan the spot changes.
UpdateRead(p, l, data) ==
    /\ pc[p] = "idle"
    /\ UNCHANGED <<spots, reservations, activities, users, cache, expires, redis, now>>
    /\ IF l \notin DOMAIN lots
       THEN /\ UNCHANGED lots
            /\ Finish(p, "NotFound")
       ELSE LET row == lots[l]
                pending == Assigned(row, data)
                current_count == row.number_of_spots
                new_count == pending.number_of_spots
                grow == (current_count + 1)..new_count
                need == current_count - new_count
            IN IF new_count < current_count
                  /\ Cardinality(AvailableSpots(l)) < need
               THEN /\ lots' = [lots EXCEPT ![l] = AfterEarlyReturn(row, pending)]
                    /\ Finish(p, "CapacityConflict")
               ELSE /\ UNCHANGED lots
                    /\ RoomFor(Cardinality(grow))
                    /\ \E rem \in SUBSET AvailableSpots(l) :
                          /\ Cardinality(rem) = (IF need > 0 THEN need ELSE 0)
                          /\ Goto(p, "update_flush",
                                  [op |-> "update", lot_id |-> l,
                                   changed |-> [c \in {c \in LotColumns :
                                                    pending[c] # row[c]}
                                                |-> pending[c]],
                                   add |-> grow, remove |-> rem])

\* Whether the flush can delete these spots: the reservations of a deleted
\* spot get spot_id = NULL, which the NOT NULL column rejects (models.py 88,
\* 117).
CanDeleteSpots(S) == \A s \in S \cap DOMAIN spots : ReservationsOfSpot(s) = {}

\* db.session.rollback() in the except branch of a handler: the statements
\* the flush had sent inside the transaction are undone.
Rollback_Partial(before, flushed) == flushed

Rollback(before, flushed) == before

\* admin.py 158, db.session.commit(): before it writes, the flush loads the
\* reservations of the spots marked for deletion, to set their spot_id to
\* NULL.
UpdateFlush(p) ==
    /\ pc[p] = "update_flush"
    /\ UNCHANGED <<lots, spots, reservations, activities, users, cache, expires, redis, now>>
    /\ Goto(p, "update_commit",
            [op |-> "update", lot_id |-> sess[p].lot_id,
             changed |-> sess[p].changed, add |-> sess[p].add,
             remove |-> sess[p].remove,
             nullify |-> ~CanDeleteSpots(sess[p].remove)])

\* admin.py 158-174: the writes of the flush (UPDATE parking_lots, the
\* UPDATE of the reservations found, INSERT and DELETE parking_spots), the
\* commit and the cache deletes.
UpdateCommit(p) ==
    /\ pc[p] = "update_commit"
    /\ UNCHANGED <<reservations, activities, users, redis, now>>
    /\ LET l == sess[p].lot_id IN
       IF l \notin DOMAIN lots \/ sess[p].nullify
       THEN /\ lots' = IF l \in DOMAIN lots
                       THEN Rollback(lots, [lots EXCEPT ![l] =
                                [c \in LotColumns |-> IF c \in DOMAIN sess[p].changed
                                                      THEN sess[p].changed[c]
                                                      ELSE lots[l][c]]])
                       ELSE lots
            /\ UNCHANGED <<spots, cache, expires>>
            /\ Finish(p, "StoreFailure")
       ELSE /\ lots' = [lots EXCEPT ![l] =
                   [c \in LotColumns |-> IF c \in DOMAIN sess[p].changed
                                         THEN sess[p].changed[c]
                                         ELSE lots[l][c]]]
            /\ spots' = Remove(spots @@ NewSpots(l, sess[p].add), sess[p].remove)
            /\ cache' = CacheDelete({"admin:parking_lots", "user:available_lots"})
            /\ expires' = ExpiryDelete({"admin:parking_lots", "user:available_lots"})
            /\ Finish(p, AfterInvalidate("Updated"))

\* admin.py 185-192: load the lot, count its occupied spots.
DeleteRead(p, l) ==
    /\ pc[p] = "idle"
    /\ UNCHANGED <<lots, spots, reservations, activities, users, cache, expires, redis, now>>
    /\ IF l \notin DOMAIN lots THEN Finish(p, "NotFound")
       ELSE IF OccupiedSpots(l) # {} THEN Finish(p, "LotNotEmpty")
       ELSE Goto(p, "delete_flush", [op |-> "delete", lot_id |-> l])

\* admin.py 195-196, db.session.delete(lot) and the start of the commit: the
\* cascade loads the spots of the lot (models.py 57) and the flush loads the
\* reservations of each, to set their spot_id to NULL.
DeleteFlush(p) ==
    /\ pc[p] = "delete_flush"
    /\ UNCHANGED <<lots, spots, reservations, activities, users, cache, expires, redis, now>>
    /\ Goto(p, "delete_commit",
            [op |-> "delete", lot_id |-> sess[p].lot_id,
             remove |-> LotSpots(sess[p].lot_id),
             nullify |-> ~CanDeleteSpots(LotSpots(sess[p].lot_id))])

\* admin.py 196-209: the writes of the flush (the UPDATE of the reservations
\* found, DELETE of the spots and of the lot), the commit and the cache
\* deletes.  A DELETE that matches no row raises StaleDataError: rollback,
\* 500.
DeleteCommit(p) ==
    /\ pc[p] = "delete_commit"
    /\ UNCHANGED <<reservations, activities, users, redis, now>>
    /\ LET l == sess[p].lot_id IN
       IF l \notin DOMAIN lots \/ sess[p].nullify
       THEN /\ UNCHANGED <<lots, spots, cache, expires>>
            /\ Finish(p, "StoreFailure")
       ELSE /\ lots' = Remove(lots, {l})
            /\ spots' = Remove(spots, sess[p].remove)
            /\ cache' = CacheDelete({"admin:parking_lots", "user:available_lots"})
            /\ expires' = ExpiryDelete({"admin:parking_lots", "user:available_lots"})
            /\ Finish(p, AfterInvalidate("Deleted"))

\* The except branch of the four two-step handlers when the commit itself
\* raises (the database is locked or unreachable): the flushed writes are
\* rolled back and the handler answers 500.
CommitFails(p) ==
    /\ pc[p] \in {"book_commit", "release_commit", "update_commit", "delete_commit"}
    /\ spots' = IF pc[p] = "book_commit" /\ sess[p].spot_id \in DOMAIN spots
                THEN Rollback(spots, [spots EXCEPT ![sess[p].spot_id].status = "O"])
                ELSE spots
    /\ reservations' =
           IF pc[p] = "release_commit"
           THEN Rollback(reservations,
                         [reservations EXCEPT ![sess[p].reservation].leaving_timestamp =
                              Some(sess[p].leaving_timestamp)])
           ELSE reservations
    /\ lots' = IF pc[p] = "delete_commit"
               THEN Rollback(lots, Remove(lots, {sess[p].lot_id}))
               ELSE lots
    /\ UNCHANGED <<activities, users, cache, expires, redis, now>>
    /\ Finish(p, "StoreFailure")

\* admin.py 100-104: the except branch of create_parking_lot.
CreateLotFails(p, attrs) ==
    /\ pc[p] = "idle"
    /\ lots' = Rollback(lots, lots @@ (MaxOf(DOMAIN lots) + 1 :> attrs))
    /\ UNCHANGED <<spots, reservations, activities, users, cache, expires, redis, now>>
    /\ Finish(p, "StoreFailure")

\* ----------------------------------------------------------------------- time
\* Mutant: redis keeps the entries whose ttl has run out.
Expired_Never(k, t) == FALSE

\* Redis holds the entry under k no longer at minute t.
Expired(k, t) == expires[k] # None /\ Val(expires[k]) <= t

\* A minute passes, up to the given horizon; redis drops the entries whose
\* ttl has run out.
Advance(horizon) ==
    /\ now < horizon
    /\ now' = now + 1
    /\ cache' = [k \in CacheKeys |-> IF Expired(k, now + 1) THEN None ELSE cache[k]]
    /\ expires' = [k \in CacheKeys |-> IF Expired(k, now + 1) THEN None ELSE expires[k]]
    /\ UNCHANGED <<lots, spots, reservations, activities, users, redis, pc, sess, resp, body>>

Tick == Advance(MaxTime)

\* ----------------------------------------------------------------- export
\* A cell of the CSV row: a text or a stored number.
Text(t) == <<"text", t>>

Num(v) == <<"num", v>>

\* Python's "x or 'N/A'" on a nullable Float column: None and 0.0 are both
\* false.
OrNA(o) == IF o # None /\ Val(o) # 0 THEN Num(Val(o)) ELSE Text("N/A")

\* user.py 296-309: the row download_csv writes for a reservation.
CsvRow(r) ==
    [id |-> r,
     leaving_time |-> IF reservations[r].leaving_timestamp # None
                      THEN Num(Val(reservations[r].leaving_timestamp))
                      ELSE Text("Active"),
     duration |-> OrNA(reservations[r].duration_hours),
     cost |-> OrNA(reservations[r].parking_cost),
     status |-> IF reservations[r].leaving_timestamp # None
                THEN "Completed" ELSE "Active"]

\* user.py 274-318: GET /api/user/export-csv/download/<user_id>, the rows of
\* the user's reservations.
DownloadCsv(p, u) ==
    /\ pc[p] = "idle"
    /\ UNCHANGED <<lots, spots, reservations, activities, users, cache, expires,
                   redis, now>>
    /\ FinishView(p, "csv",
                  [r \in {q \in DOMAIN reservations : reservations[q].user_id = u}
                      |-> CsvRow(r)])

\* ------------------------------------------------------- notification jobs
\* config.py 28: ADMIN_USERNAME.
AdminUsername == "admin"

\* app.py 72-86: insert the admin unless a user of that name exists, and
\* commit.
CreateAdminUser(table) ==
    IF AdminUsername \in DOMAIN table THEN table
    ELSE table @@ (AdminUsername :> "admin")

\* tasks.py 30-36: get_db() builds the application anew; create_app()
\* creates the tables that are missing and calls create_admin_user
\* (app.py 41-43).
GetDb == CreateAdminUser(users)

\* tasks.py 76-125: get_db(), then queries of users, user_activities and
\* parking_lots and the reminders sent by mail or chat.
SendDailyReminders ==
    /\ users' = GetDb
    /\ UNCHANGED <<lots, spots, reservations, activities, cache, expires, redis, now,
                   pc, sess, resp, body>>

\* tasks.py 128-230: get_db(), then queries of users, reservations, spots and
\* lots and the reports sent by mail.
SendMonthlyReports ==
    /\ users' = GetDb
    /\ UNCHANGED <<lots, spots, reservations, activities, cache, expires, redis, now,
                   pc, sess, resp, body>>

\* The accounts the requests of the model act for, registered beforehand.
Registered == [u \in {"u1", "u2"} |-> "user"]

\* ------------------------------------------------------------ specifications
\* The state after create_app(): empty tables, an empty cache, the redis
\* client connected (r = "up") or None because the ping failed (r = "absent").
Boot(r) ==
    /\ redis = r
    /\ body = [p \in Procs |-> None]
    /\ lots = <<>>
    /\ spots = <<>>
    /\ reservations = <<>>
    /\ activities = <<>>
    /\ users = CreateAdminUser(Registered)
    /\ cache = [k \in CacheKeys |-> None]
    /\ expires = [k \in CacheKeys |-> None]
    /\ now = 0
    /\ pc = [p \in Procs |-> "idle"]
    /\ sess = [p \in Procs |-> NoSession]
    /\ resp = [p \in Procs |-> "none"]

Init == Boot("up")

\* The JSON bodies the admin requests carry.
LotAttrs(names, addresses) ==
    [prime_location_name : names, price_per_hour : Prices, address : addresses,
     pin_code : PinCodes, number_of_spots : SpotCounts]

Opt(S) == {None} \cup {Some(v) : v \in S}

UpdateData(names, addresses) ==
    [prime_location_name : Opt(names), price_per_hour : Opt(Prices),
     address : Opt(addresses), pin_code : {None}, number_of_spots : Opt(SpotCounts)]

\* The admin form: every column of the lot, with or without a spot count.
FormUpdates(counts) ==
    [prime_location_name : {Some(v) : v \in Names},
     price_per_hour : {Some(v) : v \in Prices},
     address : {Some(v) : v \in Addresses},
     pin_code : {Some(v) : v \in PinCodes},
     number_of_spots : counts]

\* Requests that change the price or the spot count only.
CoreUpdates ==
    {d \in UpdateData({}, {}) :
        (d.price_per_hour = None) # (d.number_of_spots = None)}

\* One step of a booking in slot p.
BookStep(p) ==
    \/ \E u \in Users, l \in LotIds : BookCheck(p, u, l)
    \/ BookSelect(p)
    \/ BookCommit(p)

\* One step of a release in slot p.
ReleaseStep(p) ==
    \/ \E r \in ReservationIds, u \in Users : ReleaseRead(p, r, u)
    \/ ReleaseCommit(p)

\* One step of a user request in slot p.
UserStep(p) == BookStep(p) \/ ReleaseStep(p)

\* One step of a cached read in slot p.
ViewStep(p) ==
    \/ GetAvailableLots(p)
    \/ GetParkingLots(p)
    \/ GetDashboardStats(p)
    \/ ViewStore(p)

\* One step of an admin request in slot p, its body drawn from the given sets.
AdminStep(p, creates, updates) ==
    \/ \E attrs \in creates : CreateLot(p, attrs)
    \/ \E l \in LotIds, data \in updates : UpdateRead(p, l, data)
    \/ UpdateFlush(p)
    \/ UpdateCommit(p)
    \/ \E l \in LotIds : DeleteRead(p, l)
    \/ DeleteFlush(p)
    \/ DeleteCommit(p)

\* Requests served concurrently, one per slot, while the clock runs, cache
\* entries expire and the cache backend comes and goes.
Next ==
    \/ Tick
    \/ \E k \in CacheKeys : CacheExpire(k)
    \/ RedisDown
    \/ RedisUp
    \/ \E p \in Procs :
          \/ UserStep(p)
          \/ ViewStep(p)
          \/ AdminStep(p, LotAttrs(Names, Addresses), UpdateData(Names, Addresses))
          \/ CommitFails(p)
          \/ \E a \in LotAttrs(Names, Addresses) : CreateLotFails(p, a)

Spec == Init /\ [][Next]_vars

\* Requests served one at a time: a single slot, each handler run to its end
\* before the next begins.  All requests fall within one minute; lots keep
\* their name, address and price, and a lot is created only when none exists.
FixedPriceLots == {a \in LotAttrs({"n1"}, {"a1"}) : a.price_per_hour = 10}

Resizes == {d \in CoreUpdates : d.price_per_hour = None}

Repricings == {d \in CoreUpdates : d.number_of_spots = None}

NextSeq ==
    \/ UserStep(1)
    \/ AdminStep(1, {a \in FixedPriceLots : lots = <<>>}, Resizes)

SpecSeq == Init /\ [][NextSeq]_vars

\* One lot at a time (a lot is created only when none exists), requests one
\* at a time, the clock running and the price changing.
NextTime ==
    \/ Tick
    \/ UserStep(1)
    \/ \E attrs \in LotAttrs({"n1"}, {"a1"}) : lots = <<>> /\ CreateLot(1, attrs)
    \/ \E l \in LotIds, data \in Repricings : UpdateRead(1, l, data)
    \/ UpdateFlush(1)
    \/ UpdateCommit(1)

SpecTime == Init /\ [][NextTime]_vars

\* One lot at a time, requests one at a time, within one minute, no spot
\* released; the admin requests carry the whole form: any name, price and
\* address, and an update any spot count or none.
NextAdmin ==
    \/ BookStep(1)
    \/ \E attrs \in LotAttrs(Names, Addresses) : lots = <<>> /\ CreateLot(1, attrs)
    \/ \E l \in LotIds, data \in FormUpdates(Opt(SpotCounts)) : UpdateRead(1, l, data)
    \/ UpdateFlush(1)
    \/ UpdateCommit(1)
    \/ \E l \in LotIds : DeleteRead(1, l)
    \/ DeleteFlush(1)
    \/ DeleteCommit(1)

SpecAdmin == Init /\ [][NextAdmin]_vars

\* Concurrent bookings and releases, the clock running, on lots of one price
\* that are created between requests and then left alone.
NextRace ==
    \/ Tick
    \/ \E p \in Procs : UserStep(p)
    \/ \E attrs \in FixedPriceLots : CreateLot(1, attrs)

SpecRace == Init /\ [][NextRace]_vars

\* One reservation, booked at minute 0 on the only spot of a lot, released
\* after any whole number of minutes up to MaxElapsed at any price.
InitCost ==
    /\ \E price \in Prices :
          lots = (1 :> [prime_location_name |-> "n1", price_per_hour |-> price,
                        address |-> "a1", pin_code |-> "p1",
                        number_of_spots |-> 1])
    /\ spots = (1 :> [lot_id |-> 1, spot_number |-> <<1, 1>>, status |-> "O"])
    /\ reservations = <<[spot_id |-> 1, user_id |-> 1, parking_timestamp |-> 0,
                         leaving_timestamp |-> None, parking_cost |-> None,
                         duration_hours |-> None]>>
    /\ activities = <<[user_id |-> 1, activity_type |-> "booking"]>>
    /\ users = CreateAdminUser(Registered)
    /\ cache = [k \in CacheKeys |-> None]
    /\ expires = [k \in CacheKeys |-> None]
    /\ redis = "up"
    /\ body = [p \in Procs |-> None]
    /\ now \in 0..MaxElapsed
    /\ pc = [p \in Procs |-> "idle"]
    /\ sess = [p \in Procs |-> NoSession]
    /\ resp = [p \in Procs |-> "none"]

NextCost ==
    \/ \E u \in Users : ReleaseRead(1, 1, u)
    \/ ReleaseCommit(1)

SpecCost == InitCost /\ [][NextCost]_vars

\* Requests served one at a time, lots created with any integer count the
\* JSON body may carry, int() accepting negative ones as well.
IntCounts == (0 - 1)..2

AnyCountLots ==
    [prime_location_name : {"n1"}, price_per_hour : {10}, address : {"a1"},
     pin_code : PinCodes, number_of_spots : IntCounts]

AnyCountResizes ==
    [prime_location_name : {None}, price_per_hour : {None}, address : {None},
     pin_code : {None}, number_of_spots : {Some(n) : n \in IntCounts}]

NextCount ==
    \/ BookStep(1)
    \/ \E attrs \in AnyCountLots : CreateLot(1, attrs)
    \/ \E l \in LotIds, data \in AnyCountResizes : UpdateRead(1, l, data)
    \/ UpdateFlush(1)
    \/ UpdateCommit(1)

SpecCount == Init /\ [][NextCount]_vars

\* Requests served one at a time with the cache backend reachable and no
\* entry expiring: bookings, releases and admin requests on one lot in slot
\* 1, the reads of the available-lots view in slot 2, only when slot 1 is
\* between requests.
NextLotsCache ==
    \/ pc[2] = "idle" /\ UserStep(1)
    \/ pc[2] = "idle" /\ AdminStep(1, {a \in FixedPriceLots : lots = <<>>}, Resizes)
    \/ pc[1] = "idle" /\ GetAvailableLots(2)
    \/ ViewStore(2)

SpecLotsCache == Init /\ [][NextLotsCache]_vars

\* The same with the reads of the two admin views.
NextAdminCache ==
    \/ UserStep(1)
    \/ AdminStep(1, {a \in FixedPriceLots : lots = <<>>}, Resizes)
    \/ GetParkingLots(1)
    \/ GetDashboardStats(1)
    \/ ViewStore(1)

SpecAdminCache == Init /\ [][NextAdminCache]_vars

\* Requests served one at a time while the cache backend comes and goes, or
\* was never connected: bookings, releases and admin requests on one lot, the
\* reads of the available-lots view, entries expiring.
InitFailOpen == \E r \in {"up", "absent"} : Boot(r)

NextFailOpen ==
    \/ UserStep(1)
    \/ AdminStep(1, {a \in FixedPriceLots : lots = <<>>}, Resizes)
    \/ GetAvailableLots(1)
    \/ ViewStore(1)
    \/ \E k \in CacheKeys : CacheExpire(k)
    \/ RedisDown
    \/ RedisUp

SpecFailOpen == InitFailOpen /\ [][NextFailOpen]_vars

\* Requests served one at a time against a database whose commits may fail.
NextFailure ==
    \/ UserStep(1)
    \/ AdminStep(1, {a \in FixedPriceLots : lots = <<>>}, Resizes)
    \/ CommitFails(1)
    \/ \E a \in FixedPriceLots : CreateLotFails(1, a)

SpecFailure == Init /\ [][NextFailure]_vars

\* Reads of the available-lots view in slot 2 served concurrently with the
\* bookings and releases of slot 1, on a lot created beforehand; the cache
\* backend is reachable and no entry expires.
NextLotsCacheRace ==
    \/ UserStep(1)
    \/ pc[2] = "idle" /\ \E a \in {a \in FixedPriceLots : lots = <<>>} : CreateLot(1, a)
    \/ GetAvailableLots(2)
    \/ ViewStore(2)

SpecLotsCacheRace == Init /\ [][NextLotsCacheRace]_vars

\* Requests served one at a time while the minutes pass, long enough for the
\* entries of the three views to run out of their ttl: the reads of the
\* views and the bookings on one lot.
NextTtl ==
    \/ Advance(MaxCacheTime)
    \/ \E a \in {a \in FixedPriceLots : lots = <<>>} : CreateLot(1, a)
    \/ BookStep(1)
    \/ ViewStep(1)

SpecTtl == Init /\ [][NextTtl]_vars

\* The admin's creations, resizes and deletions in slot 1 served concurrently
\* with the bookings of slot 2, one lot at a time.
NextAdminRace ==
    \/ AdminStep(1, {a \in FixedPriceLots : lots = <<>>}, Resizes)
    \/ BookStep(2)

SpecAdminRace == Init /\ [][NextAdminRace]_vars

\* Requests served one at a time while the clock runs, the lot created and
\* repriced with any price the JSON body may carry, float() accepting zero
\* and negative ones as well.
FloatPrices == {0 - 10, 0, 10}

AnyPriceLots ==
    [prime_location_name : {"n1"}, price_per_hour : FloatPrices, address : {"a1"},
     pin_code : PinCodes, number_of_spots : {1}]

AnyPriceUpdates ==
    [prime_location_name : {None}, price_per_hour : {Some(v) : v \in FloatPrices},
     address : {None}, pin_code : {None}, number_of_spots : {None}]

NextPrice ==
    \/ Tick
    \/ UserStep(1)
    \/ \E attrs \in AnyPriceLots : lots = <<>> /\ CreateLot(1, attrs)
    \/ \E l \in LotIds, data \in AnyPriceUpdates : UpdateRead(1, l, data)
    \/ UpdateFlush(1)
    \/ UpdateCommit(1)

SpecPrice == Init /\ [][NextPrice]_vars

\* The worker and the server started on a new database, in either order:
\* the notification jobs, the start of the server, and the admin's requests
\* once the admin exists.
InitJobs ==
    /\ users = <<>>
    /\ redis = "up"
    /\ body = [p \in Procs |-> None]
    /\ lots = <<>>
    /\ spots = <<>>
    /\ reservations = <<>>
    /\ activities = <<>>
    /\ cache = [k \in CacheKeys |-> None]
    /\ expires = [k \in CacheKeys |-> None]
    /\ now = 0
    /\ pc = [p \in Procs |-> "idle"]
    /\ sess = [p \in Procs |-> NoSession]
    /\ resp = [p \in Procs |-> "none"]

\* app.py 89-90: the server builds the application.
StartApp ==
    /\ users' = CreateAdminUser(users)
    /\ UNCHANGED <<lots, spots, reservations, activities, cache, expires, redis, now,
                   pc, sess, resp, body>>

NextJobs ==
    \/ SendDailyReminders
    \/ SendMonthlyReports
    \/ StartApp
    \/ AdminUsername \in DOMAIN users
          /\ AdminStep(1, LotAttrs({"n1"}, {"a1"}), Resizes)

SpecJobs == InitJobs /\ [][NextJobs]_vars

\* Requests served one at a time while the clock runs: bookings and releases
\* on one lot and the CSV export of a user's history.
NextCsv ==
    \/ Tick
    \/ UserStep(1)
    \/ \E a \in {a \in FixedPriceLots : lots = <<>>} : CreateLot(1, a)
    \/ \E u \in Users : DownloadCsv(1, u)

SpecCsv == Init /\ [][NextCsv]_vars

\* ===================================================================== claims
\* Whole minutes a closed reservation lasted, and the price of its lot.
Elapsed(r) ==
    Val(reservations[r].leaving_timestamp) - reservations[r].parking_timestamp

PriceOf(r) == lots[spots[reservations[r].spot_id].lot_id].price_per_hour

NoAvailableSpotIn(l) ==
    \A s \in DOMAIN spots : spots[s].lot_id = l => spots[s].status # "A"

\* C1: with the requests served one at a time, in every reachable state a
\* spot is Occupied if and only if exactly one open reservation references
\* it, and an Available spot has no open reservation.
C1_OccupiedIffOneOpen ==
    \A s \in DOMAIN spots :
        /\ spots[s].status = "O" <=> Cardinality(OpenOnSpot(s)) = 1
        /\ spots[s].status = "A" => OpenOnSpot(s) = {}

\* An Occupied spot with its open reservation beside an Available spot that
\* was booked and released before.
C1_Witness ==
    \E s, t \in DOMAIN spots :
        /\ spots[s].status = "O" /\ Cardinality(OpenOnSpot(s)) = 1
        /\ spots[t].status = "A" /\ ReservationsOfSpot(t) # {}

\* C2: with two bookings running concurrently, a spot never ends up with two
\* open reservations (of two bookings racing for the last Available spot of
\* a lot only one succeeds).
C2_OneBookingPerSpot ==
    \A q, r \in OpenReservations :
        reservations[q].user_id # reservations[r].user_id =>
            reservations[q].spot_id # reservations[r].spot_id

\* C3: in every reachable state, concurrent bookings of the same user
\* included, each user has at most one open reservation.
C3_OneOpenPerUser ==
    \A u \in Users : Cardinality(OpenOfUser(u)) <= 1

\* C4: a bookSpot by a user who holds an open reservation answers
\* AlreadyBooked, whatever lot it names, and changes no lot, spot,
\* reservation or activity record.
C4_AlreadyBooked ==
    [][\A p \in Procs, u \in Users, l \in LotIds :
          (OpenOfUser(u) # {} /\ BookCheck(p, u, l)) =>
              /\ resp'[p] = "AlreadyBooked"
              /\ pc'[p] = "idle"
              /\ UNCHANGED store]_vars

\* AlreadyBooked was answered while a lot had an Available spot.
C4_Witness ==
    /\ resp[1] = "AlreadyBooked"
    /\ \E u \in Users : OpenOfUser(u) # {}
    /\ \E l \in DOMAIN lots : \E s \in LotSpots(l) : spots[s].status = "A"

\* C5: a bookSpot that comes to select a spot in a lot with no Available spot
\* answers NoAvailability and changes no lot, spot, reservation or activity
\* record.
C5_NoAvailability ==
    [][\A p \in Procs :
          (pc[p] = "book_select" /\ NoAvailableSpotIn(sess[p].lot_id)
             /\ BookSelect(p)) =>
              /\ resp'[p] = "NoAvailability"
              /\ pc'[p] = "idle"
              /\ UNCHANGED store]_vars

\* NoAvailability was answered while a lot had spots, all of them Occupied.
C5_Witness ==
    /\ resp[1] = "NoAvailability"
    /\ \E l \in DOMAIN lots :
          /\ LotSpots(l) # {}
          /\ \A s \in LotSpots(l) : spots[s].status = "O"

\* C6: a releaseSpot by its owner on a reservation already released answers
\* AlreadyReleased and changes nothing: the exit timestamp, duration and cost
\* of the first release stay, and so does the status of the spot, whoever
\* holds it by now.
C6_AlreadyReleased ==
    [][\A p \in Procs, r \in DOMAIN reservations, u \in Users :
          (reservations[r].user_id = u
             /\ reservations[r].leaving_timestamp # None
             /\ ReleaseRead(p, r, u)) =>
              /\ resp'[p] = "AlreadyReleased"
              /\ pc'[p] = "idle"
              /\ UNCHANGED store]_vars

\* AlreadyReleased was answered after the clock moved on and the spot of the
\* released reservation was booked by another user.
C6_Witness ==
    /\ resp[1] = "AlreadyReleased"
    /\ \E q, r \in DOMAIN reservations :
          /\ ~IsOpen(q) /\ IsOpen(r)
          /\ reservations[q].spot_id = reservations[r].spot_id
          /\ reservations[q].user_id # reservations[r].user_id
          /\ spots[reservations[q].spot_id].status = "O"
          /\ now > Val(reservations[q].leaving_timestamp)

\* C7: of two concurrent releaseSpot requests for the same open reservation,
\* the one that commits after the other has closed the reservation answers
\* AlreadyReleased and writes nothing: the exit timestamp, the duration and
\* the cost stay as first written, and no second release activity record is
\* appended.
C7_ReleasedOnce ==
    [][\A p \in Procs :
          (/\ pc[p] = "release_commit"
           /\ ~IsOpen(sess[p].reservation)
           /\ ReleaseCommit(p))
          => (resp'[p] = "AlreadyReleased" /\ UNCHANGED store)]_vars

\* n / d rounded to the nearest integer is k (d > 0).
Nearest(k, n, d) == 2 * (k * d - n) <= d /\ 2 * (n - k * d) <= d

\* C8 as stated: the stored duration is the elapsed time in hours rounded
\* to 2 decimals, and the stored cost is that rounded duration times the
\* price per hour.
C8_CostFromRoundedDuration ==
    \A r \in DOMAIN reservations :
        ~IsOpen(r) =>
            /\ Nearest(Val(reservations[r].duration_hours), Elapsed(r) * 100, 60)
            /\ Val(reservations[r].parking_cost) =
                   Val(reservations[r].duration_hours)
                       * PriceOf(r)

\* C8 amended: the stored duration is the elapsed time in hours rounded to
\* 2 decimals, and the stored cost is the elapsed time in hours, not
\* rounded, times the price per hour, rounded to 2 decimals; there is no
\* minimum charge.
C8_CostFromElapsed ==
    \A r \in DOMAIN reservations :
        ~IsOpen(r) =>
            /\ Nearest(Val(reservations[r].duration_hours), Elapsed(r) * 100, 60)
            /\ Nearest(Val(reservations[r].parking_cost),
                       Elapsed(r) * PriceOf(r) * 100, 60)

\* 90 minutes at 10 per hour: duration 1.50, cost 15.00.
C8_Witness ==
    \E r \in DOMAIN reservations :
        /\ ~IsOpen(r)
        /\ Elapsed(r) = 90
        /\ PriceOf(r) = 10
        /\ reservations[r].duration_hours = Some(150)
        /\ reservations[r].parking_cost = Some(1500)
        /\ resp[1] = "Released"

\* C9: the cost a release records is computed from the price the lot has
\* when the release runs, and once recorded no later request changes it.
C9_PriceAtRelease ==
    [][\A r \in DOMAIN reservations :
          /\ (IsOpen(r) /\ reservations'[r].leaving_timestamp # None) =>
                 Nearest(Val(reservations'[r].parking_cost),
                         (Val(reservations'[r].leaving_timestamp)
                            - reservations[r].parking_timestamp)
                           * PriceOf(r) * 100, 60)
          /\ ~IsOpen(r) => reservations'[r] = reservations[r]]_vars

\* A reservation released at one price keeps its cost after the price of its
\* lot was changed.
C9_Witness ==
    /\ resp[1] = "Updated"
    /\ \E r \in DOMAIN reservations :
          /\ ~IsOpen(r)
          /\ Elapsed(r) > 0
          /\ ~Nearest(Val(reservations[r].parking_cost),
                      Elapsed(r) * PriceOf(r) * 100, 60)

\* C10: an update that asks for fewer spots than the lot declares, with
\* fewer Available spots than the difference, answers CapacityConflict and
\* changes nothing: no spot is deleted, the declared count stays, and no
\* name, price or address sent with it is stored.
C10_ShrinkConflict ==
    [][\A p \in Procs, l \in DOMAIN lots, n \in SpotCounts :
          (/\ pc[p] = "idle"
           /\ n < lots[l].number_of_spots
           /\ Cardinality({s \in DOMAIN spots :
                              spots[s].lot_id = l /\ spots[s].status = "A"})
                  < lots[l].number_of_spots - n) =>
              \A data \in FormUpdates({Some(n)}) :
                  UpdateRead(p, l, data) =>
                      /\ resp'[p] = "CapacityConflict"
                      /\ pc'[p] = "idle"
                      /\ UNCHANGED store]_vars

\* CapacityConflict was answered for a lot that holds an Occupied spot and
\* still owns as many spots as it declares.
C10_Witness ==
    /\ resp[1] = "CapacityConflict"
    /\ \E l \in DOMAIN lots :
          /\ \E s \in LotSpots(l) : spots[s].status = "O"
          /\ Cardinality(LotSpots(l)) = lots[l].number_of_spots

\* C11: with the requests served one at a time, after any sequence of lot
\* creations, grows, shrinks, bookings and releases no two spots of one lot
\* carry the same label.
C11_UniqueLabels ==
    \A s, t \in DOMAIN spots :
        (s # t /\ spots[s].lot_id = spots[t].lot_id) =>
            spots[s].spot_number # spots[t].spot_number

\* C12: in every reachable state every lot declares as many spots as it
\* owns, whatever integer count it was created with and whatever resizes
\* succeeded or failed since.
C12_DeclaredIsOwned ==
    \A l \in DOMAIN lots :
        lots[l].number_of_spots =
            Cardinality({s \in DOMAIN spots : spots[s].lot_id = l})

\* C13: a deleteLot on a lot with at least one Occupied spot answers
\* LotNotEmpty and changes nothing: the lot, its spots and the reservations
\* stay as they are.
C13_LotNotEmpty ==
    [][\A p \in Procs, l \in DOMAIN lots :
          ((\E s \in DOMAIN spots : spots[s].lot_id = l /\ spots[s].status = "O")
             /\ DeleteRead(p, l)) =>
              /\ resp'[p] = "LotNotEmpty"
              /\ pc'[p] = "idle"
              /\ UNCHANGED store]_vars

\* LotNotEmpty was answered for a lot that holds an Occupied spot beside an
\* Available one.
C13_Witness ==
    /\ resp[1] = "LotNotEmpty"
    /\ \E l \in DOMAIN lots :
          /\ \E s \in LotSpots(l) : spots[s].status = "O"
          /\ \E s \in LotSpots(l) : spots[s].status = "A"
          /\ OpenReservations # {}

\* C14: a deleteLot that comes to its commit on a lot whose spots are all
\* Available answers success and removes the lot and all its spots, also
\* when closed reservations reference these spots.
C14_DeleteAllAvailable ==
    [][\A p \in Procs :
          (/\ pc[p] = "delete_commit"
           /\ sess[p].lot_id \in DOMAIN lots
           /\ \A s \in DOMAIN spots :
                  spots[s].lot_id = sess[p].lot_id => spots[s].status = "A"
           /\ DeleteCommit(p)) =>
              /\ resp'[p] = "Deleted"
              /\ sess[p].lot_id \notin DOMAIN lots'
              /\ \A s \in DOMAIN spots' : spots'[s].lot_id # sess[p].lot_id]_vars

\* C15: with the requests served one at a time and the cache backend
\* reachable, a successful bookSpot, releaseSpot or resizeLot removes the
\* cached available-lots entry, and every read of the available-lots view
\* returns the list computed from the store as it is at the read, whatever
\* was cached before the last mutation.
C15_AvailableLotsFresh ==
    [][\A p \in Procs :
          /\ ((BookCommit(p) \/ ReleaseCommit(p) \/ UpdateCommit(p))
                /\ resp'[p] \in {"Booked", "Released", "Updated"}) =>
                 cache'["user:available_lots"] = None
          /\ ((GetAvailableLots(p) /\ pc'[p] = "idle")
                \/ (/\ pc[p] = "view_store"
                    /\ sess[p].key = "user:available_lots"
                    /\ ViewStore(p))) =>
                 body'[p] = Some([key |-> "user:available_lots",
                                 value |-> AvailableLotsView])]_vars

\* A read cached the list of available lots, then a booking took a spot: the
\* entry is gone, and the list the read answered is no longer the list of
\* the store.
C15_Witness ==
    /\ resp[1] = "Booked"
    /\ resp[2] = "Ok"
    /\ body[2] # None
    /\ Val(body[2]).key = "user:available_lots"
    /\ Val(body[2]).value # AvailableLotsView
    /\ cache["user:available_lots"] = None
    /\ \E s \in DOMAIN spots : spots[s].status = "O"

\* C16: a successful bookSpot, releaseSpot, resizeLot or deleteLot leaves no
\* admin lot-list or dashboard-stats entry in the cache that differs from
\* the view computed from the store after it, so the next read of either
\* view is a fresh computation.
C16_AdminViewsInvalidated ==
    [][\A p \in Procs :
          ((BookCommit(p) \/ ReleaseCommit(p) \/ UpdateCommit(p) \/ DeleteCommit(p))
             /\ resp'[p] \in {"Booked", "Released", "Updated", "Deleted"}) =>
              /\ cache'["admin:parking_lots"] \in {None, Some(ParkingLotsView')}
              /\ cache'["admin:dashboard_stats"] \in {None, Some(DashboardStats')}]_vars

\* C17: while the cache backend is absent or its calls fail, a request that
\* writes answers an error only if it committed nothing, a cached read falls
\* through to the computation from the store and answers it, and no request
\* changes the cache: the results are those of an empty cache that works.
C17_FailOpen ==
    [][\A p \in Procs :
          (redis # "up" /\ redis' = redis) =>
              /\ (UNCHANGED <<pc, resp, store>>) \/ cache' = cache
              /\ (pc[p] \in {"book_commit", "release_commit", "update_commit",
                              "delete_commit"}
                    /\ resp'[p] \notin {"Booked", "Released", "Updated", "Deleted"})
                   => UNCHANGED store
              /\ \A attrs \in FixedPriceLots :
                     CreateLot(p, attrs) => resp'[p] = "Created"
              /\ GetAvailableLots(p) =>
                     /\ pc'[p] = "view_store"
                     /\ sess'[p].value = AvailableLotsView
              /\ (pc[p] = "view_store" /\ ViewStore(p)) =>
                     /\ resp'[p] = "Ok"
                     /\ body'[p] = Some([key |-> sess[p].key,
                                         value |-> sess[p].value])
                     /\ UNCHANGED store]_vars

\* A booking committed while the cache backend was down: it answered Booked,
\* and the available-lots entry cached before it, now out of date, is still
\* in the cache.
C17_Witness ==
    /\ redis = "down"
    /\ resp[1] = "Booked"
    /\ cache["user:available_lots"] # None
    /\ Val(cache["user:available_lots"]) # AvailableLotsView

\* C18: a reservation, once created, is in every later state; its spot, its
\* user and its entry timestamp never change, and once it is closed its exit
\* timestamp, duration and cost never change again.
C18_WrittenOnce ==
    [][/\ Len(reservations') >= Len(reservations)
       /\ \A r \in DOMAIN reservations :
              /\ reservations'[r].spot_id = reservations[r].spot_id
              /\ reservations'[r].user_id = reservations[r].user_id
              /\ reservations'[r].parking_timestamp = reservations[r].parking_timestamp
              /\ reservations[r].leaving_timestamp # None =>
                     /\ reservations'[r].leaving_timestamp = reservations[r].leaving_timestamp
                     /\ reservations'[r].duration_hours = reservations[r].duration_hours
                     /\ reservations'[r].parking_cost = reservations[r].parking_cost]_vars

\* C19: a releaseSpot on a reservation id that does not exist answers
\* NotFound; on a reservation of another user it answers Unauthorized, the
\* reservation open or closed; both change no reservation, spot or activity
\* record.
C19_ReleasePreconditions ==
    [][\A p \in Procs, r \in ReservationIds, u \in Users :
          ReleaseRead(p, r, u) =>
              /\ r > Len(reservations) =>
                     (resp'[p] = "NotFound" /\ pc'[p] = "idle" /\ UNCHANGED store)
              /\ (r <= Len(reservations) /\ reservations[r].user_id # u) =>
                     (resp'[p] = "Unauthorized" /\ pc'[p] = "idle"
                        /\ UNCHANGED store)]_vars

\* Unauthorized was answered while every reservation was closed.
C19_Witness ==
    /\ resp[1] = "Unauthorized"
    /\ reservations # <<>>
    /\ \A r \in DOMAIN reservations : reservations[r].leaving_timestamp # None

\* C20: a bookSpot that names a lot id that does not exist answers NotFound,
\* not the NoAvailability of a full lot, and changes nothing.
C20_UnknownLotNotFound ==
    [][\A p \in Procs :
          (/\ pc[p] = "book_select"
           /\ sess[p].lot_id \notin DOMAIN lots
           /\ BookSelect(p)) =>
              (resp'[p] = "NotFound" /\ UNCHANGED store)]_vars

\* C21: a handler that answers with the store's failure (its commit raised,
\* in bookSpot, releaseSpot, the update, deleteLot or createLot) leaves lots,
\* spots, reservations and activities as they were before the step, and the
\* state it leaves has every Occupied spot with its open reservation and no
\* spot Occupied by a reservation that is closed.
C21_FailedCommitAtomic ==
    [][\A p \in Procs :
          (/\ resp'[p] = "StoreFailure"
           /\ pc'[p] = "idle"
           /\ pc[p] # "idle" \/ resp[p] # "StoreFailure") =>
              /\ store' = store
              /\ \A s \in DOMAIN spots' :
                    spots'[s].status = "O" =>
                        \E r \in DOMAIN reservations' :
                            /\ reservations'[r].spot_id = s
                            /\ reservations'[r].leaving_timestamp = None]_vars

\* The store failed a request while a spot was Occupied under its open
\* reservation and another reservation was closed.
C21_Witness ==
    /\ resp[1] = "StoreFailure"
    /\ \E s \in DOMAIN spots : spots[s].status = "O" /\ OpenOnSpot(s) # {}
    /\ \E r \in DOMAIN reservations : ~IsOpen(r)

\* C22: a bookSpot that selects a spot selects the first Available spot of
\* the lot in creation order (the lowest id, which is also the lowest label),
\* so that the same state and request always book the same spot.
C22_FirstAvailableBooked ==
    [][\A p \in Procs :
          (pc[p] = "book_select" /\ pc'[p] = "book_commit") =>
              \A s \in DOMAIN spots :
                  (spots[s].lot_id = sess[p].lot_id /\ spots[s].status = "A") =>
                      sess'[p].spot_id <= s]_vars

\* C23: when a read of the available-lots view that missed the cache runs
\* concurrently with bookings and releases, then once the read and the
\* booking or release have both completed, the cache holds no available-lots
\* entry that differs from the view of the committed store.
C23_NoStaleEntryAfterRace ==
    (pc[1] = "idle" /\ pc[2] = "idle" /\ resp[1] \in {"Booked", "Released"}) =>
        cache["user:available_lots"] \in {None, Some(AvailableLotsView)}

\* C24: a cached read answers the cached value only when an entry of its view
\* is present, and an entry is present only while its ttl has not run out and
\* no invalidation has removed it; when there is no such entry the read
\* computes the view from the store, stores it with the ttl of the view and
\* answers what it computed.  No entry is held past its ttl, so none is
\* answered.
C24_CachedRead ==
    [][/\ \A p \in Procs, k \in CacheKeys :
             /\ (pc[p] = "idle" /\ ViewRead(p, k)) =>
                   IF cache[k] # None
                   THEN /\ now < Val(expires[k])
                        /\ pc'[p] = "idle"
                        /\ body'[p] = Some([key |-> k, value |-> Val(cache[k])])
                        /\ cache' = cache
                   ELSE /\ pc'[p] = "view_store"
                        /\ sess'[p].key = k
                        /\ sess'[p].value = Compute(k)
             /\ (pc[p] = "view_store" /\ sess[p].key = k /\ ViewStore(p)) =>
                   /\ cache'[k] = Some(sess[p].value)
                   /\ expires'[k] = Some(now + Ttl(k))
                   /\ body'[p] = Some([key |-> k, value |-> sess[p].value])
       /\ \A k \in CacheKeys :
             /\ cache'[k] # None => now' < Val(expires'[k])
             /\ (\E p \in Procs : BookCommit(p) /\ resp'[p] = "Booked") =>
                   cache'[k] = None]_vars

\* The entry of the available lots ran out, and a later read answered the
\* list it computed from a store changed meanwhile and stored it anew.
C24_Witness ==
    /\ now >= 2
    /\ resp[1] = "Ok"
    /\ body[1] = Some([key |-> "user:available_lots", value |-> AvailableLotsView])
    /\ cache["user:available_lots"] = Some(AvailableLotsView)
    /\ expires["user:available_lots"] = Some(now + 2)
    /\ \E s \in DOMAIN spots : spots[s].status = "O"

\* C25: the activity log only grows, by one booking record for each
\* successful bookSpot and one release record of the acting user for each
\* successful releaseSpot, and by nothing else; so there are as many booking
\* records as reservations and as many release records as closed
\* reservations.
C25_ActivityLogMatches ==
    [][/\ Len(activities') >= Len(activities)
       /\ SubSeq(activities', 1, Len(activities)) = activities
       /\ Cardinality({i \in DOMAIN activities' :
                          activities'[i].activity_type = "booking"})
              = Len(reservations')
       /\ Cardinality({i \in DOMAIN activities' :
                          activities'[i].activity_type = "release"})
              = Cardinality({r \in DOMAIN reservations' :
                               reservations'[r].leaving_timestamp # None})]_vars

\* C26: in every reachable state, those reached by interleaving a deleteLot
\* or a shrink with a concurrent bookSpot on the same lot included, every
\* open reservation references a spot that exists, in a lot that exists.
C26_OpenReservationHasSpot ==
    \A r \in OpenReservations :
        /\ reservations[r].spot_id \in DOMAIN spots
        /\ spots[reservations[r].spot_id].lot_id \in DOMAIN lots

\* C27: after any createLot or update, whatever price the request carried,
\* the price per hour of every lot is at least 0, and so is the cost of every
\* closed reservation.
C27_PriceNotNegative ==
    /\ \A l \in DOMAIN lots : lots[l].price_per_hour >= 0
    /\ \A r \in DOMAIN reservations :
          ~IsOpen(r) => Val(reservations[r].parking_cost) >= 0

\* C28: a run of either notification job, the daily reminders or the monthly
\* reports, leaves every user, lot, spot, reservation and activity record as
\* it was.
C28_JobsReadOnly ==
    [][(SendDailyReminders \/ SendMonthlyReports) =>
          UNCHANGED <<users, lots, spots, reservations, activities>>]_vars

\* C29: a CSV export shows, for an open reservation, Duration and Cost as
\* N/A and Status Active, and for a closed one its stored duration and cost
\* and Status Completed, also when the stored duration or cost is 0.
C29_CsvRowShowsStored ==
    \A p \in Procs :
        (body[p] # None /\ Val(body[p]).key = "csv") =>
            \A r \in DOMAIN Val(body[p]).value :
                LET row == Val(body[p]).value[r] IN
                IF reservations[r].leaving_timestamp = None
                THEN /\ row.duration = Text("N/A")
                     /\ row.cost = Text("N/A")
                     /\ row.status = "Active"
                ELSE /\ row.duration = Num(Val(reservations[r].duration_hours))
                     /\ row.cost = Num(Val(reservations[r].parking_cost))
                     /\ row.status = "Completed"

\* C30: a reservation is open exactly when its cost and its duration are both
\* absent, and every closed reservation has an exit timestamp not before its
\* entry timestamp and both its duration and its cost set.
C30_OpenIffNoCost ==
    \A r \in DOMAIN reservations :
        /\ IsOpen(r) <=> (/\ reservations[r].parking_cost = None
                          /\ reservations[r].duration_hours = None)
        /\ ~IsOpen(r) =>
              /\ Val(reservations[r].leaving_timestamp)
                    >= reservations[r].parking_timestamp
              /\ reservations[r].duration_hours # None
              /\ reservations[r].parking_cost # None

\* A reservation closed a minute after it began, with its duration and cost,
\* beside an open one.
C30_Witness ==
    /\ \E r \in DOMAIN reservations :
          /\ ~IsOpen(r)
          /\ Val(reservations[r].leaving_timestamp) > reservations[r].parking_timestamp
          /\ Val(reservations[r].parking_cost) > 0
    /\ OpenReservations # {}

\* C31: a successful bookSpot changes exactly one spot, the selected one, a
\* spot of the requested lot, from Available to Occupied, and adds exactly
\* one open reservation of the caller on it; a successful releaseSpot changes
\* exactly one reservation, the released one, and flips exactly its spot to
\* Available.  Both leave every other spot, every other reservation and
\* every lot as they were.
C31_BookReleaseFrame ==
    [][\A p \in Procs :
          /\ (pc[p] = "book_select" /\ pc'[p] = "book_commit") =>
                spots[sess'[p].spot_id].lot_id = sess[p].lot_id
          /\ (BookCommit(p) /\ resp'[p] = "Booked") =>
                LET s == sess[p].spot_id
                    n == Len(reservations)
                IN /\ lots' = lots
                   /\ DOMAIN spots' = DOMAIN spots
                   /\ spots[s].status = "A"
                   /\ spots'[s] = [spots[s] EXCEPT !.status = "O"]
                   /\ \A t \in DOMAIN spots \ {s} : spots'[t] = spots[t]
                   /\ Len(reservations') = n + 1
                   /\ SubSeq(reservations', 1, n) = reservations
                   /\ reservations'[n + 1].user_id = sess[p].user_id
                   /\ reservations'[n + 1].spot_id = s
                   /\ reservations'[n + 1].leaving_timestamp = None
          /\ (ReleaseCommit(p) /\ resp'[p] = "Released") =>
                LET r == sess[p].reservation
                    s == reservations[r].spot_id
                IN /\ lots' = lots
                   /\ DOMAIN spots' = DOMAIN spots
                   /\ spots[s].status = "O"
                   /\ spots'[s] = [spots[s] EXCEPT !.status = "A"]
                   /\ \A t \in DOMAIN spots \ {s} : spots'[t] = spots[t]
                   /\ Len(reservations') = Len(reservations)
                   /\ reservations[r].leaving_timestamp = None
                   /\ reservations'[r].leaving_timestamp # None
                   /\ \A q \in DOMAIN reservations \ {r} :
                         reservations'[q] = reservations[q]]_vars

====
